---- MODULE Spec2Model ----
(***************************************************************************)
(* Model of the IMGW water-level alert worker (dzwonimy/imgw-alerts).      *)
(*                                                                         *)
(*   Spec       one run of the Lambda handler: query the alert store,      *)
(*              filter, then per enabled alert fetch -> evaluate ->        *)
(*              dispatch -> audit write, with the two nested catch blocks. *)
(*   SpecEval   the pure threshold evaluator applied to bounded inputs.    *)
(*   SpecToken  the module-level bot-token cache of the Telegram client    *)
(*              under arbitrary interleavings of calls, completions of     *)
(*              secret-provider requests and cache clears.                 *)
(*   SpecParse  parseMeasurement applied to bounded JavaScript values.     *)
(*   SpecFetch  one fetchStationData call against a source that may fail,  *)
(*              answer, stall before the headers or stall before the body, *)
(*              with the clock and the abort timer.                        *)
(*   SpecSend   one sendMessage call: parameter name, getBotToken through  *)
(*              the token cache, the POST and its answer.                  *)
(*   SpecKeys   writeEvent calls on bounded events: the keys of the items. *)
(*   SpecLog    the three log functions on pairs of bounded objects.       *)
(*                                                                         *)
(* Strings that the code splits or joins on '#' are sequences of their     *)
(* '#'-separated parts; timestamps are sequences of one-character strings. *)
(* A property of an object that is undefined in the code is a field that   *)
(* is absent from the record.                                              *)
(***************************************************************************)
EXTENDS Integers, Sequences, FiniteSets, TLC

VARIABLES
    \* ---- handler run (Spec)
    env,            \* the required environment variables that are set
    alerts,         \* items of the WaterAlerts table, in query order
    pc,             \* position of the handler
    enabledAlerts,  \* result of filterEnabledAlerts
    idx,            \* position of the for-loop in enabledAlerts
    measurement,    \* measurement of the alert being processed
    pending,        \* event handed to the writeEvent call in progress
    site,           \* which writeEvent call of the handler is in progress
    events,         \* items put into the WaterAlertEvents table by this run
    log,            \* history: every external call of the run with its outcome
    \* ---- threshold evaluator (SpecEval)
    evalAlert, evalLevel, evalResult,
    \* ---- bot-token cache (SpecToken)
    cachedToken, tokenPromise, requests, ssmValue, calls, firstOk,
    cleared,        \* history: clearTokenCache was called and no getBotToken since
    cacheSrc,       \* history: the request whose response filled cachedToken
    \* ---- parseMeasurement applied to bounded inputs (SpecParse)
    raw,            \* the value handed to parseMeasurement
    parsed,         \* what parseMeasurement returned
    \* ---- one fetchStationData call (SpecFetch)
    fetchPc,        \* position of the call
    clock,          \* milliseconds since the call
    timerArmed,     \* the setTimeout of the call is pending
    fetchOption,    \* options.timeout
    fetchSource,    \* history: what the source did
    fetchResult,    \* what the call returned or threw
    \* ---- one sendMessage call (SpecSend)
    smPc,           \* position of the call
    smOption,       \* options.ssmParameterName
    smEnv,          \* process.env.TELEGRAM_TOKEN_PARAM
    smPosts,        \* history: the POSTs sent to the Telegram API
    smResponse,     \* history: the answer to the POST
    smResult,       \* what the call returned or threw
    \* ---- writeEvent calls (SpecKeys)
    written,        \* history: the events handed to writeEvent, with the items put
    \* ---- the structured logger (SpecLog)
    logInput,       \* the context or data object handed to the logger
    logOther,       \* a second object, for the comparison of two log calls
    logRecords      \* what was emitted for the two objects

handlerVars == <<env, alerts, pc, enabledAlerts, idx, measurement, pending, site, events, log>>
evalVars == <<evalAlert, evalLevel, evalResult>>
tokenVars == <<cachedToken, tokenPromise, requests, ssmValue, calls, firstOk, cleared, cacheSrc>>
parseVars == <<raw, parsed>>
fetchVars == <<fetchPc, clock, timerArmed, fetchOption, fetchSource, fetchResult>>
sendVars == <<smPc, smOption, smEnv, smPosts, smResponse, smResult>>
keyVars == <<written>>
logVars == <<logInput, logOther, logRecords>>
clientVars == <<parseVars, fetchVars, sendVars, keyVars, logVars>>
parseOthers == <<handlerVars, evalVars, tokenVars, fetchVars, sendVars, keyVars, logVars>>
fetchOthers == <<handlerVars, evalVars, tokenVars, parseVars, sendVars, keyVars, logVars>>
sendOthers == <<handlerVars, evalVars, tokenVars, parseVars, fetchVars, keyVars, logVars>>
keyOthers == <<handlerVars, evalVars, tokenVars, parseVars, fetchVars, sendVars, logVars>>
logOthers == <<handlerVars, evalVars, tokenVars, parseVars, fetchVars, sendVars, keyVars>>
vars == <<handlerVars, evalVars, tokenVars, clientVars>>

(***************************************************************************)
(* Bounds of the model                                                     *)
(***************************************************************************)
MaxAlerts == 2      \* items in the alert store
MaxRequests == 3    \* secret-provider requests issued in one behaviour
MaxCalls == 4       \* getBotToken calls made in one behaviour

Levels == {-1, 0, 1, 2}                     \* water levels a station reports
Ranges == {<<0, 1>>, <<1, 1>>, <<1, 0>>}    \* <<minLevel, maxLevel>> of an alert
Times == {<<"1", ":", "0">>, <<"1", "-", "0">>}  \* timestamps a station reports
FetchErrors == {"Request timeout after 10000ms", "IMGW API returned status 500: "}
SendErrors == {"Telegram API returned status 400: Bad Request"}
WriteErrors == {"ProvisionedThroughputExceededException"}
MessageIds == {41, 42}
Randoms == {"r1", "r2"}

\* a property of an object is defined
Present(e, f) == f \in DOMAIN e

\* new Date().toISOString()
NowIso == <<"9", ":", "9", ".", "9", "Z">>

(***************************************************************************)
(* alert-evaluator.ts                                                      *)
(***************************************************************************)
\* mutant: the upper boundary is exclusive
isLevelInRangeExclusive(alert, m) ==
    IF ~alert.enabled
    THEN FALSE
    ELSE alert.minLevel <= m.level /\ m.level < alert.maxLevel

isLevelInRange(alert, m) ==
    IF ~alert.enabled
    THEN FALSE
    ELSE alert.minLevel <= m.level /\ m.level <= alert.maxLevel

\* mutant: nothing is filtered out
filterNothing(as) == as

\* mutant: the enabled alerts come out in reverse order
filterEnabledReversed(as) ==
    LET f == SelectSeq(as, LAMBDA a : a.enabled = TRUE)
    IN  [k \in 1..Len(f) |-> f[Len(f) + 1 - k]]

filterEnabledAlerts(as) == SelectSeq(as, LAMBDA a : a.enabled = TRUE)

\* mutant: the upper bound of the range is not checked
evaluateAlertNoUpperBound(alert, m) ==
    IF ~alert.enabled
    THEN FALSE
    ELSE alert.minLevel <= m.level

evaluateAlert(alert, m) ==
    IF ~alert.enabled
    THEN FALSE
    ELSE isLevelInRange(alert, m)

(***************************************************************************)
(* event-logger.ts: keys, writeEvent and the three event builders          *)
(***************************************************************************)
\* measurementTime.replace(/[:.]/g, '-')
cleanTimestamp(ts) == [k \in 1..Len(ts) |-> IF ts[k] \in {":", "."} THEN "-" ELSE ts[k]]

generateSortKey(measurementTime, random) ==
    <<"MEASUREMENT", cleanTimestamp(measurementTime), random>>

\* mutant: the partition key leaves the alert id out
generatePartitionKeyOfStation(stationId, alertId) == <<"ALERT", stationId>>

generatePartitionKey(stationId, alertId) == <<"ALERT", stationId, alertId>>

\* alertSk.split('#'): alertSk is held as the sequence of its parts
extractAlertId(alertSk) == IF Len(alertSk) > 1 THEN alertSk[2] ELSE "default"

EventFields ==
    {"stationId", "alertSk", "level", "measurementTimeRaw", "measurementTimeIso",
     "matched", "attemptedAt", "sentAt", "status", "error", "telegramMessageId"}

\* The item handed to PutCommand. Fields the event leaves undefined are
\* absent from the stored item.
writeEvent(event, random) ==
    LET alertId == IF "alertSk" \in DOMAIN event /\ event.alertSk # <<"">>
                   THEN extractAlertId(event.alertSk)
                   ELSE "default"
        pk == generatePartitionKey(event.stationId, alertId)
        sk == generateSortKey(event.measurementTimeIso, random)
    IN  [pk |-> pk, sk |-> sk] @@
        [f \in (DOMAIN event) \cap EventFields |-> event[f]]

createSentEvent(alert, m, telegramMessageId, alertSk) ==
    [stationId |-> alert.stationId,
     alertSk |-> alertSk,
     level |-> m.level,
     measurementTimeRaw |-> m.measurementTime,
     measurementTimeIso |-> m.measurementTime,
     matched |-> TRUE,
     attemptedAt |-> NowIso,
     sentAt |-> NowIso,
     status |-> "SENT",
     telegramMessageId |-> telegramMessageId]

\* mutant: the FAILED event is stamped as sent
createFailedEventWithSentAt(alert, m, error, alertSk) ==
    [stationId |-> alert.stationId,
     alertSk |-> alertSk,
     level |-> m.level,
     measurementTimeRaw |-> m.measurementTime,
     measurementTimeIso |-> m.measurementTime,
     matched |-> TRUE,
     attemptedAt |-> NowIso,
     sentAt |-> NowIso,
     status |-> "FAILED",
     error |-> error]

\* error is the message of the Error (or the string) that was caught
createFailedEvent(alert, m, error, alertSk) ==
    [stationId |-> alert.stationId,
     alertSk |-> alertSk,
     level |-> m.level,
     measurementTimeRaw |-> m.measurementTime,
     measurementTimeIso |-> m.measurementTime,
     matched |-> TRUE,
     attemptedAt |-> NowIso,
     status |-> "FAILED",
     error |-> error]

\* mutant: a skipped event is recorded as not matched
createSkippedEventUnmatched(alert, m, alertSk) ==
    [stationId |-> alert.stationId,
     alertSk |-> alertSk,
     level |-> m.level,
     measurementTimeRaw |-> m.measurementTime,
     measurementTimeIso |-> m.measurementTime,
     matched |-> FALSE,
     attemptedAt |-> NowIso,
     status |-> "SKIPPED"]

createSkippedEvent(alert, m, alertSk) ==
    [stationId |-> alert.stationId,
     alertSk |-> alertSk,
     level |-> m.level,
     measurementTimeRaw |-> m.measurementTime,
     measurementTimeIso |-> m.measurementTime,
     matched |-> TRUE,
     attemptedAt |-> NowIso,
     status |-> "SKIPPED"]

(***************************************************************************)
(* The alert store                                                         *)
(***************************************************************************)
\* The k-th item of the store: alerts 1 and 2 watch station "S1" under the
\* alert ids "default" and "high", alerts 3 and 4 station "S2", and so on.
StationOf(k) == <<"S1", "S2", "S3", "S4">>[(k + 1) \div 2]
AlertIdOf(k) == IF k % 2 = 1 THEN "default" ELSE "high"

AlertItem(k, en, range) ==
    [sk |-> <<StationOf(k), AlertIdOf(k)>>,
     stationId |-> StationOf(k),
     minLevel |-> range[1],
     maxLevel |-> range[2],
     enabled |-> en]

StoreSnapshots ==
    UNION { { [k \in 1..n |-> AlertItem(k, f[k][1], f[k][2])] :
              f \in [1..n -> BOOLEAN \X Ranges] } : n \in 0..MaxAlerts }

(***************************************************************************)
(* handler                                                                 *)
(***************************************************************************)
NoMeasurement == [none |-> TRUE]
NoEvent == [none |-> TRUE]

\* placeholderMeasurement of the handler
placeholderMeasurement == [level |-> -1, measurementTime |-> NowIso]

RequiredEnv == {"ALERTS_TABLE_NAME", "EVENTS_TABLE_NAME", "TELEGRAM_TOKEN_PARAM"}

\* mutant: the environment is not checked
configAlwaysComplete(e) == TRUE

\* !(!alertsTableName || !eventsTableName || !telegramTokenParam)
configComplete(e) == RequiredEnv \subseteq e

HandlerInit ==
    /\ env \in SUBSET RequiredEnv
    /\ alerts \in StoreSnapshots
    /\ pc = "start"
    /\ enabledAlerts = <<>>
    /\ idx = 0
    /\ measurement = NoMeasurement
    /\ pending = NoEvent
    /\ site = "none"
    /\ events = <<>>
    /\ log = <<>>

\* if (!alertsTableName || !eventsTableName || !telegramTokenParam) throw
Start ==
    /\ pc = "start"
    /\ pc' = IF configComplete(env) THEN "query" ELSE "thrown"
    /\ UNCHANGED <<env, alerts, enabledAlerts, idx, measurement, pending, site, events, log>>
    /\ UNCHANGED <<evalVars, tokenVars, clientVars>>

\* Steps 1 and 2: the query of the alert store, then filterEnabledAlerts.
\* A query failure reaches the fatal catch and is rethrown.
QueryAlerts ==
    /\ pc = "query"
    /\ \/ /\ pc' = "thrown"
          /\ log' = Append(log, [op |-> "query", res |-> "threw"])
          /\ UNCHANGED <<enabledAlerts, idx>>
       \/ /\ enabledAlerts' = filterEnabledAlerts(alerts)
          /\ log' = Append(log, [op |-> "query", res |-> "ok"])
          /\ IF Len(enabledAlerts') = 0
             THEN pc' = "done" /\ idx' = 0
             ELSE pc' = "fetch" /\ idx' = 1
    /\ UNCHANGED <<env, alerts, measurement, pending, site, events>>
    /\ UNCHANGED <<evalVars, tokenVars, clientVars>>

\* continue / end of the loop body: the for-loop takes the next alert, or
\* the handler returns.
NextAlert ==
    /\ IF idx < Len(enabledAlerts)
       THEN pc' = "fetch" /\ idx' = idx + 1
       ELSE pc' = "done" /\ idx' = idx
    /\ measurement' = NoMeasurement
    /\ pending' = NoEvent
    /\ site' = "none"

\* await writeEvent(event, ...) issued from the call site s of the handler
AwaitWrite(event, s) ==
    /\ pending' = event
    /\ site' = s
    /\ pc' = "write"
    /\ idx' = idx

\* The fatal catch of the handler: logs and rethrows.
FatalCatch ==
    /\ pending' = NoEvent
    /\ site' = "none"
    /\ pc' = "thrown"
    /\ idx' = idx

\* mutant: the per-alert catch rethrows instead of recording
AlertCatchRethrows(alert, alertSk, e) == FatalCatch

\* The per-alert catch: a FAILED event with the placeholder measurement.
AlertCatch(alert, alertSk, e) ==
    AwaitWrite(createFailedEvent(alert, placeholderMeasurement, e, alertSk), "alertCatch")

\* mutant: the inner catch records the placeholder measurement
SendCatchPlaceholder(alert, alertSk, e) ==
    AwaitWrite(createFailedEvent(alert, placeholderMeasurement, e, alertSk), "sendCatch")

\* mutant: the inner catch sends the notification again
SendCatchRetries(alert, alertSk, e) ==
    /\ pc' = "send"
    /\ UNCHANGED <<pending, site, idx>>

\* The catch around sendMessage and the SENT write: a FAILED event with the
\* measurement that matched.
SendCatch(alert, alertSk, e) ==
    AwaitWrite(createFailedEvent(alert, measurement, e, alertSk), "sendCatch")

\* if (!measurement) { ... writeEvent(createSkippedEvent(alert, placeholder)); continue }
SkipNoMeasurement(alert, alertSk) ==
    AwaitWrite(createSkippedEvent(alert, placeholderMeasurement, alertSk), "noMeasurement")

\* mutant: an unmatched alert is not recorded at all
SkipNotMatchedNoWrite(alert, m, alertSk) == NextAlert

\* if (!isMatched) { ... writeEvent(createSkippedEvent(alert, measurement)); continue }
SkipNotMatched(alert, m, alertSk) ==
    AwaitWrite(createSkippedEvent(alert, m, alertSk), "notMatched")

\* Step 3a and 3b: await fetchStationData, then evaluateAlert.
FetchAndEvaluate ==
    /\ pc = "fetch"
    /\ LET alert == enabledAlerts[idx]
           alertSk == alert.sk
       IN  \/ \E e \in FetchErrors :
                /\ log' = Append(log, [op |-> "fetch", sk |-> alertSk, res |-> "threw", err |-> e])
                /\ AlertCatch(alert, alertSk, e)
                /\ UNCHANGED measurement
           \/ /\ log' = Append(log, [op |-> "fetch", sk |-> alertSk, res |-> "null"])
              /\ SkipNoMeasurement(alert, alertSk)
              /\ UNCHANGED measurement
           \/ \E l \in Levels, t \in Times :
                LET m == [level |-> l, measurementTime |-> t]
                IN  /\ log' = Append(log, [op |-> "fetch", sk |-> alertSk, res |-> "ok", level |-> l])
                    /\ IF ~evaluateAlert(alert, m)
                       THEN /\ SkipNotMatched(alert, m, alertSk)
                            /\ UNCHANGED measurement
                       ELSE /\ measurement' = m
                            /\ pc' = "send"
                            /\ UNCHANGED <<pending, site, idx>>
    /\ UNCHANGED <<env, alerts, enabledAlerts, events>>
    /\ UNCHANGED <<evalVars, tokenVars, clientVars>>

\* Step 3c: await sendMessage inside the inner try.
SendNotification ==
    /\ pc = "send"
    /\ LET alert == enabledAlerts[idx]
           alertSk == alert.sk
       IN  \/ \E messageId \in MessageIds :
                /\ log' = Append(log, [op |-> "send", sk |-> alertSk, res |-> "ok", id |-> messageId])
                /\ AwaitWrite(createSentEvent(alert, measurement, messageId, alertSk), "sent")
           \/ \E e \in SendErrors :
                /\ log' = Append(log, [op |-> "send", sk |-> alertSk, res |-> "threw", err |-> e])
                /\ SendCatch(alert, alertSk, e)
    /\ UNCHANGED <<env, alerts, enabledAlerts, measurement, events>>
    /\ UNCHANGED <<evalVars, tokenVars, clientVars>>

\* The writeEvent call in progress resolves: the item is in the table and
\* the loop moves on.
WriteEventOk ==
    /\ pc = "write"
    /\ \E random \in Randoms :
          /\ events' = Append(events, writeEvent(pending, random))
          /\ log' = Append(log, [op |-> "write", sk |-> enabledAlerts[idx].sk,
                                 res |-> "ok", event |-> pending])
    /\ NextAlert
    /\ UNCHANGED <<env, alerts, enabledAlerts>>
    /\ UNCHANGED <<evalVars, tokenVars, clientVars>>

\* The writeEvent call in progress rejects. The catch block that encloses
\* the call site decides what comes next:
\*   the SENT write is inside the inner try          -> SendCatch
\*   the two skipped writes and SendCatch's write are inside the outer try
\*                                                   -> AlertCatch
\*   AlertCatch's own write                          -> FatalCatch
WriteEventThrows ==
    /\ pc = "write"
    /\ \E e \in WriteErrors :
          LET alert == enabledAlerts[idx]
              alertSk == alert.sk
          IN  /\ log' = Append(log, [op |-> "write", sk |-> alertSk,
                                     res |-> "threw", event |-> pending, err |-> e])
              /\ CASE site = "sent" -> SendCatch(alert, alertSk, e)
                   [] site \in {"noMeasurement", "notMatched", "sendCatch"} ->
                        AlertCatch(alert, alertSk, e)
                   [] OTHER -> FatalCatch
    /\ UNCHANGED <<env, alerts, enabledAlerts, measurement, events>>
    /\ UNCHANGED <<evalVars, tokenVars, clientVars>>

(***************************************************************************)
(* Threshold evaluator applied to bounded inputs                           *)
(***************************************************************************)
MaxEvalLevel == 2
EvalLevels == (0 - MaxEvalLevel)..MaxEvalLevel

NoAlert == [none |-> TRUE]
NoResult == [none |-> TRUE]

EvalIdle ==
    /\ evalAlert = NoAlert
    /\ evalLevel = 0
    /\ evalResult = NoResult

EvalInit ==
    /\ evalAlert \in [enabled : BOOLEAN, minLevel : EvalLevels, maxLevel : EvalLevels]
    /\ evalLevel \in EvalLevels
    /\ evalResult = NoResult

\* One call of evaluateAlert and one of isLevelInRange on the same input.
Evaluate ==
    /\ evalResult = NoResult
    /\ LET m == [level |-> evalLevel, measurementTime |-> NowIso]
       IN  evalResult' = [evaluateAlert |-> evaluateAlert(evalAlert, m),
                          isLevelInRange |-> isLevelInRange(evalAlert, m)]
    /\ UNCHANGED <<evalAlert, evalLevel>>
    /\ UNCHANGED <<handlerVars, tokenVars, clientVars>>

(***************************************************************************)
(* telegram-client.ts: the module-level token cache                        *)
(***************************************************************************)
Null == "null"                  \* the null of cachedToken
Params == {"p1", "p2"}          \* SSM parameter names
Tokens == {"t1", "t2"}          \* parameter values
NoValue == ""                   \* response.Parameter?.Value is missing or empty

TokenIdle ==
    /\ cachedToken = Null
    /\ tokenPromise = 0
    /\ requests = <<>>
    /\ ssmValue = [p \in Params |-> NoValue]
    /\ calls = <<>>
    /\ firstOk = Null
    /\ cleared = FALSE
    /\ cacheSrc = 0

TokenInit ==
    /\ cachedToken = Null
    /\ tokenPromise = 0
    /\ requests = <<>>
    /\ ssmValue \in [Params -> Tokens \cup {NoValue}]
    /\ calls = <<>>
    /\ firstOk = Null
    /\ cleared = FALSE
    /\ cacheSrc = 0

Pending(id) == requests[id].state = "pending"
InFlight == {id \in 1..Len(requests) : Pending(id)}

\* The record of one getBotToken call: the request src whose outcome the
\* call returns (req is src for a caller that awaits a promise, 0 for a
\* cache hit), whether the call sent the request itself, and what was true
\* of the cache history when the call was made.
CallRecord(p, req, src, issued, result) ==
    [param |-> p, req |-> req, issued |-> issued, result |-> result,
     afterOk |-> firstOk,
     afterClear |-> cleared,
     src |-> src,
     srcBeforeClear |-> IF src \in 1..Len(requests) THEN requests[src].beforeClear ELSE FALSE]

\* getBotToken(parameterName): a cache hit returns at once; with a promise
\* stored the caller awaits it; otherwise a GetParameter request is sent and
\* its promise is stored in tokenPromise.
GetBotToken(p) ==
    /\ Len(calls) < MaxCalls
    /\ IF cachedToken # Null
       THEN /\ calls' = Append(calls, CallRecord(p, 0, cacheSrc, FALSE, cachedToken))
            /\ firstOk' = IF firstOk = Null THEN cachedToken ELSE firstOk
            /\ UNCHANGED <<tokenPromise, requests>>
       ELSE IF tokenPromise # 0
       THEN /\ calls' = Append(calls, CallRecord(p, tokenPromise, tokenPromise, FALSE,
                                                 IF Pending(tokenPromise)
                                                 THEN "pending"
                                                 ELSE requests[tokenPromise].value))
            /\ UNCHANGED <<tokenPromise, requests, firstOk>>
       ELSE /\ Len(requests) < MaxRequests
            /\ requests' = Append(requests, [param |-> p, state |-> "pending", value |-> Null,
                                             beforeClear |-> FALSE,
                                             callsAtReject |-> 0])
            /\ tokenPromise' = Len(requests) + 1
            /\ calls' = Append(calls, CallRecord(p, Len(requests) + 1, Len(requests) + 1,
                                                 TRUE, "pending"))
            /\ UNCHANGED firstOk
    /\ cleared' = FALSE
    /\ UNCHANGED <<cachedToken, ssmValue, cacheSrc>>
    /\ UNCHANGED <<handlerVars, evalVars, clientVars>>

\* The request id is rejected. The history keeps the number of getBotToken
\* calls made so far.
Rejected(id) ==
    [requests EXCEPT ![id].state = "rejected", ![id].value = "rejected",
                     ![id].callsAtReject = Len(calls)]

\* The callers awaiting request id receive its outcome.
Settle(id, outcome) ==
    [k \in 1..Len(calls) |->
        IF calls[k].req = id /\ calls[k].result = "pending"
        THEN [calls[k] EXCEPT !.result = outcome]
        ELSE calls[k]]

\* client.send resolves with a value: the token is cached and returned.
\* A response without a value throws inside the try and takes the catch.
SsmResponds(id) ==
    /\ Pending(id)
    /\ LET token == ssmValue[requests[id].param]
       IN  IF token # NoValue
           THEN /\ cachedToken' = token
                /\ requests' = [requests EXCEPT ![id].state = "resolved", ![id].value = token]
                /\ calls' = Settle(id, token)
                /\ firstOk' = IF firstOk = Null THEN token ELSE firstOk
                /\ cacheSrc' = id
                /\ UNCHANGED tokenPromise
           ELSE /\ tokenPromise' = 0
                /\ requests' = Rejected(id)
                /\ calls' = Settle(id, "rejected")
                /\ UNCHANGED <<cachedToken, firstOk, cacheSrc>>
    /\ UNCHANGED <<ssmValue, cleared>>
    /\ UNCHANGED <<handlerVars, evalVars, clientVars>>

\* mutant: the catch leaves the rejected promise in tokenPromise
SsmFailsKeepsPromise(id) ==
    /\ Pending(id)
    /\ requests' = Rejected(id)
    /\ calls' = Settle(id, "rejected")
    /\ UNCHANGED <<cachedToken, tokenPromise, firstOk, ssmValue, cleared, cacheSrc>>
    /\ UNCHANGED <<handlerVars, evalVars, clientVars>>

\* client.send rejects: the catch clears tokenPromise and rethrows.
SsmFails(id) ==
    /\ Pending(id)
    /\ tokenPromise' = 0
    /\ requests' = Rejected(id)
    /\ calls' = Settle(id, "rejected")
    /\ UNCHANGED <<cachedToken, firstOk, ssmValue, cleared, cacheSrc>>
    /\ UNCHANGED <<handlerVars, evalVars, clientVars>>

\* cachedToken = null; tokenPromise = null. Requests in flight are not
\* cancelled; the history marks them as issued before the clear.
clearTokenCache ==
    /\ cachedToken' = Null
    /\ tokenPromise' = 0
    /\ firstOk' = Null
    /\ cleared' = TRUE
    /\ cacheSrc' = 0
    /\ requests' = [id \in 1..Len(requests) |-> [requests[id] EXCEPT !.beforeClear = TRUE]]
    /\ UNCHANGED <<ssmValue, calls>>
    /\ UNCHANGED <<handlerVars, evalVars, clientVars>>

\* The administrator rotates the bot token stored in the parameter.
RotateToken(p, v) ==
    /\ ssmValue[p] # v
    /\ ssmValue' = [ssmValue EXCEPT ![p] = v]
    /\ UNCHANGED <<cachedToken, tokenPromise, requests, calls, firstOk, cleared, cacheSrc>>
    /\ UNCHANGED <<handlerVars, evalVars, clientVars>>

(***************************************************************************)
(* JavaScript values. A value is a record tagged with its kind; NaN and    *)
(* the infinities are kinds of their own whose typeof is "number". The     *)
(* fields of an object are the domain of its f component; a numeric string *)
(* of the model is a signed decimal integer.                               *)
(***************************************************************************)
Undefined == [t |-> "undefined"]
JsNull == [t |-> "null"]
NaN == [t |-> "NaN"]
Infinity == [t |-> "Infinity"]
Num(n) == [t |-> "number", n |-> n]
Str(s) == [t |-> "string", s |-> s]
Bool(b) == [t |-> "boolean", b |-> b]
Obj(f) == [t |-> "object", f |-> f]
Arr(a) == [t |-> "array", a |-> a]

typeof(v) ==
    CASE v.t \in {"number", "NaN", "Infinity"} -> "number"
      [] v.t \in {"object", "array", "null"} -> "object"
      [] OTHER -> v.t

\* obj.field
Get(obj, field) ==
    IF obj.t = "object" /\ field \in DOMAIN obj.f THEN obj.f[field] ELSE Undefined

\* the truthiness of a value in a condition
Truthy(v) ==
    CASE v.t \in {"undefined", "null", "NaN"} -> FALSE
      [] v.t = "number" -> v.n # 0
      [] v.t = "string" -> v.s # <<>>
      [] v.t = "boolean" -> v.b
      [] OTHER -> TRUE

Whitespace == {" "}
DigitChars == <<"0", "1", "2", "3", "4", "5", "6", "7", "8", "9">>
IsDigit(c) == \E i \in 1..Len(DigitChars) : DigitChars[i] = c
DigitValue(c) == (CHOOSE i \in 1..Len(DigitChars) : DigitChars[i] = c) - 1

RECURSIVE trimStart(_)
trimStart(s) ==
    IF s # <<>> /\ Head(s) \in Whitespace THEN trimStart(Tail(s)) ELSE s

RECURSIVE trimEnd(_)
trimEnd(s) ==
    IF s # <<>> /\ s[Len(s)] \in Whitespace
    THEN trimEnd(SubSeq(s, 1, Len(s) - 1))
    ELSE s

\* value.trim()
trim(s) == trimEnd(trimStart(s))

RECURSIVE DecimalValue(_)
DecimalValue(digits) ==
    IF digits = <<>>
    THEN 0
    ELSE 10 * DecimalValue(SubSeq(digits, 1, Len(digits) - 1)) + DigitValue(digits[Len(digits)])

\* Number(s) of a string: surrounding whitespace is ignored, the empty
\* string is 0, an optionally signed run of digits is its value, anything
\* else is NaN.
NumberOfString(s) ==
    LET t == trim(s)
        signed == t # <<>> /\ Head(t) \in {"-", "+"}
        digits == IF signed THEN Tail(t) ELSE t
    IN  IF t = <<>>
        THEN Num(0)
        ELSE IF digits # <<>> /\ \A i \in 1..Len(digits) : IsDigit(digits[i])
        THEN Num(IF Head(t) = "-" THEN 0 - DecimalValue(digits) ELSE DecimalValue(digits))
        ELSE NaN

\* Number(value)
Number(v) ==
    CASE v.t \in {"number", "NaN", "Infinity"} -> v
      [] v.t = "string" -> NumberOfString(v.s)
      [] v.t = "boolean" -> Num(IF v.b THEN 1 ELSE 0)
      [] v.t = "null" -> Num(0)
      [] v.t = "array" ->
            IF Len(v.a) = 0
            THEN Num(0)
            ELSE IF Len(v.a) > 1
            THEN NaN
            ELSE LET e == v.a[1]
                 IN  CASE e.t \in {"undefined", "null"} -> Num(0)
                       [] e.t = "string" -> NumberOfString(e.s)
                       [] e.t \in {"number", "NaN", "Infinity"} -> e
                       [] OTHER -> NaN
      [] OTHER -> NaN

RECURSIVE NatChars(_)
NatChars(n) ==
    IF n < 10 THEN <<DigitChars[n + 1]>> ELSE NatChars(n \div 10) \o <<DigitChars[(n % 10) + 1]>>

\* String(value), as a sequence of characters
String(v) ==
    CASE v.t = "string" -> v.s
      [] v.t = "number" -> IF v.n < 0 THEN <<"-">> \o NatChars(0 - v.n) ELSE NatChars(v.n)
      [] v.t = "boolean" -> IF v.b THEN <<"t", "r", "u", "e">> ELSE <<"f", "a", "l", "s", "e">>
      [] v.t = "array" ->
            IF Len(v.a) = 0
            THEN <<>>
            ELSE IF Len(v.a) = 1 /\ v.a[1].t = "string"
            THEN v.a[1].s
            ELSE <<",">>
      [] v.t = "object" -> <<"[object Object]">>
      [] OTHER -> <<v.t>>

(***************************************************************************)
(* imgw-client.ts: convertToNumber and parseMeasurement                    *)
(***************************************************************************)
\* mutant: the empty-string test after the trim is missing
convertToNumberNoEmptyCheck(value) ==
    CASE value.t \in {"null", "undefined"} -> JsNull
      [] value.t \in {"NaN", "Infinity"} -> JsNull
      [] value.t = "number" -> value
      [] OTHER ->
            LET num == Number(value)
            IN  IF num.t \in {"NaN", "Infinity"} THEN JsNull ELSE num

\* The result is Num(n) or JsNull.
convertToNumber(value) ==
    CASE value.t \in {"null", "undefined"} -> JsNull
      [] value.t \in {"NaN", "Infinity"} -> JsNull
      [] value.t = "number" -> value
      [] value.t = "string" ->
            LET trimmed == trim(value.s)
                num == NumberOfString(trimmed)
            IN  IF trimmed = <<>>
                THEN JsNull
                ELSE IF num.t \in {"NaN", "Infinity"} THEN JsNull ELSE num
      [] OTHER ->
            LET num == Number(value)
            IN  IF num.t \in {"NaN", "Infinity"} THEN JsNull ELSE num

\* The timestamp of the measurement: the first truthy field of
\* data_pomiaru, timestamp, date, and the current instant otherwise.
measurementTimeOf(obj, now) ==
    IF Truthy(Get(obj, "data_pomiaru"))
    THEN String(Get(obj, "data_pomiaru"))
    ELSE IF Truthy(Get(obj, "timestamp"))
    THEN String(Get(obj, "timestamp"))
    ELSE IF Truthy(Get(obj, "date"))
    THEN String(Get(obj, "date"))
    ELSE now

\* The result is JsNull or a measurement [level, measurementTime].
parseMeasurement(m, now) ==
    IF ~Truthy(m) \/ typeof(m) # "object"
    THEN JsNull
    ELSE LET stanWody == Get(m, "stan_wody")
             level == convertToNumber(stanWody)
         IN  IF stanWody.t \in {"null", "undefined"}
             THEN JsNull
             ELSE IF level = JsNull
             THEN JsNull
             ELSE [level |-> level.n, measurementTime |-> measurementTimeOf(m, now)]

(***************************************************************************)
(* parseMeasurement applied to bounded inputs                              *)
(***************************************************************************)
MaxStrLen == 3
Chars == {"0", "1", "-", " ", "a"}

\* the strings of at most MaxStrLen characters
Strings == UNION {[1..n -> Chars] : n \in 0..MaxStrLen}

StanWodyValues ==
    {JsNull, Undefined, NaN, Infinity, Num(-1), Num(0), Num(2)}
    \cup {Str(s) : s \in Strings}
    \cup {Bool(TRUE), Bool(FALSE), Arr(<<>>), Arr(<<Str(<<"1">>)>>),
          Arr(<<Num(1), Num(2)>>), Obj([level |-> Num(1)])}

NoFields == <<>>
StanWodyFields == {NoFields} \cup {[stan_wody |-> v] : v \in StanWodyValues}

TimeFields ==
    {NoFields,
     [data_pomiaru |-> Str(<<"1", ":", "0">>)],
     [data_pomiaru |-> Str(<<"1", ":", "0">>), timestamp |-> Str(<<"2", ":", "0">>)],
     [timestamp |-> Str(<<"2", ":", "0">>), date |-> Str(<<"3", ":", "0">>)],
     [date |-> Str(<<"3", ":", "0">>)],
     [data_pomiaru |-> Str(<<>>), date |-> Str(<<"3", ":", "0">>)],
     [data_pomiaru |-> JsNull, timestamp |-> Num(7)],
     [data_pomiaru |-> Arr(<<>>), timestamp |-> Str(<<"2", ":", "0">>)]}

RawInputs ==
    {Obj(sw @@ tf) : sw \in StanWodyFields, tf \in TimeFields}
    \cup {JsNull, Undefined, Num(0), Num(2), Str(<<>>), Str(<<"1">>), Bool(TRUE),
          Arr(<<>>), Arr(<<Num(1)>>)}

NotParsed == [none |-> TRUE]

ParseIdle ==
    /\ raw = Undefined
    /\ parsed = NotParsed

ParseInit ==
    /\ raw \in RawInputs
    /\ parsed = NotParsed

\* One call of parseMeasurement.
Parse ==
    /\ parsed = NotParsed
    /\ parsed' = parseMeasurement(raw, NowIso)
    /\ UNCHANGED raw
    /\ UNCHANGED parseOthers

(***************************************************************************)
(* imgw-client.ts: fetchStationData. The call is split at its two awaits   *)
(* (fetch, response.json()); the clock advances in steps and a timer that  *)
(* is armed fires before the clock passes its deadline.                    *)
(***************************************************************************)
MaxClock == 20000                   \* the clock stops here
DefaultTimeout == 10000             \* options.timeout || 10000
TimeoutOptions == {0, 5000}         \* options.timeout; 0 stands for "not given"
ClockSteps == {5000}
MaxBodyLen == 2                     \* elements of a response array

JsError(message) == [isError |-> TRUE, name |-> "Error", message |-> message]
AbortError == [isError |-> TRUE, name |-> "AbortError", message |-> "This operation was aborted"]
FetchRejections ==
    {[isError |-> TRUE, name |-> "TypeError", message |-> "fetch failed"],
     [isError |-> FALSE, name |-> "", message |-> "ECONNRESET"]}
JsonRejections ==
    {[isError |-> TRUE, name |-> "SyntaxError", message |-> "Unexpected end of JSON input"]}

\* <<status, statusText>> of a response
StatusLines == {<<200, "OK">>, <<404, "Not Found">>, <<500, "">>}
responseOk(status) == 200 <= status /\ status <= 299

FetchElements ==
    {Obj([stan_wody |-> Num(2), data_pomiaru |-> Str(<<"1", ":", "0">>)]),
     Obj([stan_wody |-> Str(<<"1">>)]),
     Obj([stan_wody |-> JsNull, data_pomiaru |-> Str(<<"1", ":", "0">>)]),
     Str(<<"a">>)}

FetchBodies ==
    {JsNull, Num(1), Str(<<"a">>), Obj([error |-> Str(<<"a">>)])}
    \cup {Arr(a) : a \in UNION {[1..n -> FetchElements] : n \in 0..MaxBodyLen}}

NoOutcome == [none |-> TRUE]
NoSource == [none |-> TRUE]
Returned(value) == [kind |-> "returned", value |-> value]
Threw(error) == [kind |-> "threw", error |-> error]

timeoutOf(option) == IF option # 0 THEN option ELSE DefaultTimeout

\* The catch block of fetchStationData.
fetchCatch(error, timeout) ==
    IF error.isError
    THEN IF error.name = "AbortError"
         THEN Threw(JsError("Request timeout after " \o ToString(timeout) \o "ms"))
         ELSE Threw(error)
    ELSE Threw(JsError("Unknown error: " \o error.message))

\* mutant: the last element of the array is taken
lastElement(data) == data.a[Len(data.a)]

\* const measurement = data[0]
firstElement(data) == data.a[1]

\* What follows `const data = await response.json()`.
fetchBodyResult(data, timeout, now) ==
    IF data.t # "array"
    THEN fetchCatch(JsError("Expected array response, got " \o typeof(data)), timeout)
    ELSE IF Len(data.a) = 0
    THEN Returned(JsNull)
    ELSE Returned(parseMeasurement(firstElement(data), now))

FetchIdle ==
    /\ fetchPc = "idle"
    /\ clock = 0
    /\ timerArmed = FALSE
    /\ fetchOption = 0
    /\ fetchSource = NoSource
    /\ fetchResult = NoOutcome

FetchInit ==
    /\ fetchPc = "start"
    /\ clock = 0
    /\ timerArmed = FALSE
    /\ fetchOption \in TimeoutOptions
    /\ fetchSource = NoSource
    /\ fetchResult = NoOutcome

FetchDone == fetchPc \in {"returned", "threw"}

FetchEnds(outcome) ==
    /\ fetchResult' = outcome
    /\ fetchPc' = outcome.kind

\* setTimeout(() => controller.abort(), timeout); fetch(url, {signal})
FetchCall ==
    /\ fetchPc = "start"
    /\ fetchPc' = "headers"
    /\ timerArmed' = TRUE
    /\ UNCHANGED <<clock, fetchOption, fetchSource, fetchResult>>
    /\ UNCHANGED fetchOthers

\* Time passes while the call awaits; an armed timer is not overrun.
Tick ==
    /\ fetchPc \in {"headers", "body"}
    /\ clock < MaxClock
    /\ ~(timerArmed /\ clock >= timeoutOf(fetchOption))
    /\ \E d \in ClockSteps : clock' = clock + d
    /\ UNCHANGED <<fetchPc, timerArmed, fetchOption, fetchSource, fetchResult>>
    /\ UNCHANGED fetchOthers

\* The timer fires: controller.abort() rejects the pending fetch with an
\* AbortError, which the catch turns into the timeout error.
TimerFires ==
    /\ fetchPc = "headers"
    /\ timerArmed
    /\ clock >= timeoutOf(fetchOption)
    /\ timerArmed' = FALSE
    /\ fetchSource' = [kind |-> "aborted"]
    /\ FetchEnds(fetchCatch(AbortError, timeoutOf(fetchOption)))
    /\ UNCHANGED <<clock, fetchOption>>
    /\ UNCHANGED fetchOthers

\* fetch rejects (no connection, reset, ...). The timer is left armed.
FetchRejects ==
    /\ fetchPc = "headers"
    /\ \E e \in FetchRejections :
          /\ fetchSource' = [kind |-> "rejected", error |-> e]
          /\ FetchEnds(fetchCatch(e, timeoutOf(fetchOption)))
    /\ UNCHANGED <<clock, timerArmed, fetchOption>>
    /\ UNCHANGED fetchOthers

\* fetch resolves with the status line and headers: clearTimeout, then the
\* response.ok test.
HeadersArrive ==
    /\ fetchPc = "headers"
    /\ timerArmed' = FALSE
    /\ \E line \in StatusLines :
          /\ fetchSource' = [kind |-> "response", status |-> line[1], statusText |-> line[2]]
          /\ IF ~responseOk(line[1])
             THEN FetchEnds(fetchCatch(JsError("IMGW API returned status " \o ToString(line[1])
                                               \o ": " \o line[2]),
                                       timeoutOf(fetchOption)))
             ELSE /\ fetchPc' = "body"
                  /\ UNCHANGED fetchResult
    /\ UNCHANGED <<clock, fetchOption>>
    /\ UNCHANGED fetchOthers

\* response.json() resolves with the parsed body.
BodyArrives ==
    /\ fetchPc = "body"
    /\ \E data \in FetchBodies :
          /\ fetchSource' = fetchSource @@ [body |-> data]
          /\ FetchEnds(fetchBodyResult(data, timeoutOf(fetchOption), NowIso))
    /\ UNCHANGED <<clock, timerArmed, fetchOption>>
    /\ UNCHANGED fetchOthers

\* response.json() rejects: the body is not JSON.
BodyInvalid ==
    /\ fetchPc = "body"
    /\ \E e \in JsonRejections :
          /\ fetchSource' = fetchSource @@ [invalid |-> e]
          /\ FetchEnds(fetchCatch(e, timeoutOf(fetchOption)))
    /\ UNCHANGED <<clock, timerArmed, fetchOption>>
    /\ UNCHANGED fetchOthers

(***************************************************************************)
(* telegram-client.ts: sendTelegramMessage and sendMessage. One call of    *)
(* sendMessage; its getBotToken call is the GetBotToken action of the      *)
(* token cache, answered by SsmResponds or SsmFails.                       *)
(***************************************************************************)
NoName == ""                        \* option or environment variable not set
TokenParamOptions == {NoName, "p1"} \* options.ssmParameterName
TokenParamEnvs == {NoName, "p2"}    \* process.env.TELEGRAM_TOKEN_PARAM

\* responses with a non-2xx status: <<status, body text>>
TelegramFailures == {<<400, "Bad Request">>, <<500, "">>}

\* bodies of 2xx responses, parsed
TelegramBodies ==
    {Obj([ok |-> Bool(TRUE), result |-> Obj([message_id |-> Num(41)])]),
     Obj([ok |-> Bool(TRUE), result |-> Obj([message_id |-> Num(0)])]),
     Obj([ok |-> Bool(TRUE), result |-> Obj([message_id |-> Str(<<"4", "1">>)])]),
     Obj([ok |-> Bool(TRUE), result |-> Obj([message_id |-> JsNull])]),
     Obj([ok |-> Bool(TRUE), result |-> Obj(NoFields)]),
     Obj([ok |-> Bool(TRUE), result |-> JsNull]),
     Obj([ok |-> Bool(TRUE)]),
     Obj([ok |-> Bool(FALSE), description |-> Str(<<"a">>)]),
     Obj([ok |-> Bool(FALSE), result |-> Obj([message_id |-> Num(42)])]),
     Obj([result |-> Obj([message_id |-> Num(42)])]),
     JsNull}

TelegramResponses ==
    {[status |-> f[1], text |-> f[2]] : f \in TelegramFailures}
    \cup {[status |-> 200, data |-> d] : d \in TelegramBodies}
    \cup {[status |-> 200, invalid |-> TRUE]}

\* mutant: a built-in parameter name is the last resort
parameterNameWithDefault(option, envName) ==
    IF option # NoName THEN option ELSE IF envName # NoName THEN envName ELSE "p1"

\* const parameterName = options.ssmParameterName || process.env.TELEGRAM_TOKEN_PARAM || ''
parameterNameOf(option, envName) ==
    IF option # NoName THEN option ELSE IF envName # NoName THEN envName ELSE NoName

\* mutant: the type of message_id is not tested
telegramResultUnchecked(response) ==
    IF ~responseOk(response.status)
    THEN Threw(JsError("Telegram API returned status " \o ToString(response.status)
                       \o ": " \o response.text))
    ELSE IF Present(response, "invalid")
    THEN Threw([isError |-> TRUE, name |-> "SyntaxError", message |-> "Unexpected token"])
    ELSE LET data == response.data
             messageId == Get(Get(data, "result"), "message_id")
         IN  IF data.t \in {"null", "undefined"}
             THEN Threw([isError |-> TRUE, name |-> "TypeError",
                         message |-> "Cannot read properties of null"])
             ELSE IF ~Truthy(Get(data, "ok"))
             THEN Threw([isError |-> TRUE, name |-> "Error",
                         message |-> "Telegram API returned error: ", data |-> data])
             ELSE Returned(messageId)

\* What sendTelegramMessage does with the response to its POST.
telegramResult(response) ==
    IF ~responseOk(response.status)
    THEN Threw(JsError("Telegram API returned status " \o ToString(response.status)
                       \o ": " \o response.text))
    ELSE IF Present(response, "invalid")
    THEN Threw([isError |-> TRUE, name |-> "SyntaxError", message |-> "Unexpected token"])
    ELSE LET data == response.data
             messageId == Get(Get(data, "result"), "message_id")
         IN  IF data.t \in {"null", "undefined"}
             THEN Threw([isError |-> TRUE, name |-> "TypeError",
                         message |-> "Cannot read properties of null"])
             ELSE IF ~Truthy(Get(data, "ok"))
             THEN Threw([isError |-> TRUE, name |-> "Error",
                         message |-> "Telegram API returned error: ", data |-> data])
             ELSE IF typeof(messageId) # "number"
             THEN Threw(JsError("Invalid response from Telegram API: missing message_id"))
             ELSE Returned(messageId)

SendIdle ==
    /\ smPc = "idle"
    /\ smOption = NoName
    /\ smEnv = NoName
    /\ smPosts = <<>>
    /\ smResponse = NoSource
    /\ smResult = NoOutcome

\* The cache is cold, or warm from an earlier sendMessage of the container.
SendInit ==
    /\ smPc = "start"
    /\ smOption \in TokenParamOptions
    /\ smEnv \in TokenParamEnvs
    /\ smPosts = <<>>
    /\ smResponse = NoSource
    /\ smResult = NoOutcome
    /\ cachedToken \in {Null} \cup Tokens
    /\ firstOk = cachedToken
    /\ tokenPromise = 0
    /\ requests = <<>>
    /\ ssmValue \in [Params -> Tokens \cup {NoValue}]
    /\ calls = <<>>
    /\ cleared = FALSE
    /\ cacheSrc = 0

SendEnds(outcome) ==
    /\ smResult' = outcome
    /\ smPc' = outcome.kind

\* if (!parameterName) throw new Error('Telegram token parameter name not provided')
SendMessageStart ==
    /\ smPc = "start"
    /\ IF parameterNameOf(smOption, smEnv) = NoName
       THEN SendEnds(Threw(JsError("Telegram token parameter name not provided")))
       ELSE /\ smPc' = "token"
            /\ UNCHANGED smResult
    /\ UNCHANGED <<smOption, smEnv, smPosts, smResponse>>
    /\ UNCHANGED sendOthers

\* await getBotToken(parameterName, options.ssmClient): the call is made
SendGetsToken ==
    /\ smPc = "token"
    /\ calls = <<>>
    /\ GetBotToken(parameterNameOf(smOption, smEnv))

\* getBotToken rejected: sendMessage rejects with its error.
SendTokenFailed ==
    /\ smPc = "token"
    /\ Len(calls) = 1
    /\ calls[1].result = "rejected"
    /\ SendEnds(Threw(JsError("Failed to get bot token from SSM")))
    /\ UNCHANGED <<smOption, smEnv, smPosts, smResponse>>
    /\ UNCHANGED sendOthers

\* getBotToken resolved: sendTelegramMessage issues its POST.
SendPosts ==
    /\ smPc = "token"
    /\ Len(calls) = 1
    /\ calls[1].result \in Tokens
    /\ smPosts' = Append(smPosts, [method |-> "POST", token |-> calls[1].result])
    /\ smPc' = "post"
    /\ UNCHANGED <<smOption, smEnv, smResponse, smResult>>
    /\ UNCHANGED sendOthers

\* The POST is answered and the body is read.
TelegramResponds ==
    /\ smPc = "post"
    /\ \E response \in TelegramResponses :
          /\ smResponse' = response
          /\ SendEnds(telegramResult(response))
    /\ UNCHANGED <<smOption, smEnv, smPosts>>
    /\ UNCHANGED sendOthers

\* The POST fails: fetch, or the read of the body, rejects.
PostRejects ==
    /\ smPc = "post"
    /\ \E e \in FetchRejections :
          /\ e.isError
          /\ smResponse' = [rejected |-> e]
          /\ SendEnds(Threw(e))
    /\ UNCHANGED <<smOption, smEnv, smPosts>>
    /\ UNCHANGED sendOthers

(***************************************************************************)
(* event-logger.ts: writeEvent called on bounded events. Math.random() is  *)
(* a choice from Randoms at each call.                                     *)
(***************************************************************************)
MaxWrites == 2

\* event.alertSk as the sequence of its '#'-separated parts: '', 'S1',
\* 'S1#', 'S1#default', 'S1#high', 'S1#high#x'
KeyAlertSks ==
    {<<"">>, <<"S1">>, <<"S1", "">>, <<"S1", "default">>, <<"S1", "high">>,
     <<"S1", "high", "x">>}

KeyTimes == Times \cup {NowIso}

Without(event, field) == [f \in (DOMAIN event) \ {field} |-> event[f]]

\* events as the builders make them, and the same without alertSk
KeyEvents ==
    LET alert == [stationId |-> "S1"]
        built == {createSentEvent(alert, [level |-> 1, measurementTime |-> t], 41, sk) :
                     t \in KeyTimes, sk \in KeyAlertSks}
                 \cup {createSkippedEvent(alert, [level |-> 2, measurementTime |-> t], sk) :
                          t \in KeyTimes, sk \in KeyAlertSks}
    IN  built \cup {Without(e, "alertSk") : e \in built}

KeyIdle == written = <<>>

KeyInit == written = <<>>

\* One writeEvent call: the item handed to PutCommand.
WriteEvent ==
    /\ Len(written) < MaxWrites
    /\ \E event \in KeyEvents, random \in Randoms :
          written' = Append(written, [event |-> event, item |-> writeEvent(event, random)])
    /\ UNCHANGED keyOthers

(***************************************************************************)
(* logger.ts: sanitizeValue, sanitizeObject and the three log functions.   *)
(* A field name or a string is a sequence of characters; the fields of an  *)
(* object are the domain of a function from names to values.               *)
(***************************************************************************)
UpperCase == <<"A", "B", "C", "D", "E", "F", "G", "H", "I", "J", "K", "L", "M",
               "N", "O", "P", "Q", "R", "S", "T", "U", "V", "W", "X", "Y", "Z">>
LowerCase == <<"a", "b", "c", "d", "e", "f", "g", "h", "i", "j", "k", "l", "m",
               "n", "o", "p", "q", "r", "s", "t", "u", "v", "w", "x", "y", "z">>

toLowerCase(s) ==
    [i \in 1..Len(s) |->
        IF \E j \in 1..Len(UpperCase) : UpperCase[j] = s[i]
        THEN LowerCase[CHOOSE j \in 1..Len(UpperCase) : UpperCase[j] = s[i]]
        ELSE s[i]]

\* s.includes(sub)
includes(s, sub) ==
    \E i \in 0..(Len(s) - Len(sub)) : SubSeq(s, i + 1, i + Len(sub)) = sub

sensitiveKeys ==
    {<<"t", "o", "k", "e", "n">>,
     <<"s", "e", "c", "r", "e", "t">>,
     <<"p", "a", "s", "s", "w", "o", "r", "d">>,
     <<"a", "p", "i", "k", "e", "y">>,
     <<"a", "u", "t", "h">>,
     <<"a", "u", "t", "h", "o", "r", "i", "z", "a", "t", "i", "o", "n">>,
     <<"t", "e", "l", "e", "g", "r", "a", "m", "t", "o", "k", "e", "n">>,
     <<"b", "o", "t", "t", "o", "k", "e", "n">>}

\* sensitiveKeys.some((sensitive) => lowerKey.includes(sensitive.toLowerCase()))
isSensitiveKey(key) ==
    \E sensitive \in sensitiveKeys : includes(toLowerCase(key), toLowerCase(sensitive))

Redacted == Str(<<"[REDACTED]">>)

\* /^[A-Za-z0-9_-]+$/
TokenChars ==
    {UpperCase[j] : j \in 1..Len(UpperCase)} \cup {LowerCase[j] : j \in 1..Len(LowerCase)}
    \cup {DigitChars[j] : j \in 1..Len(DigitChars)} \cup {"_", "-"}

sanitizeValue(value) ==
    IF value.t = "string"
    THEN IF Len(value.s) > 20 /\ \A i \in 1..Len(value.s) : value.s[i] \in TokenChars
         THEN Redacted
         ELSE value
    ELSE value

RECURSIVE sanitizeObject(_)
sanitizeObject(obj) ==
    Obj([key \in DOMAIN obj.f |->
            IF isSensitiveKey(key)
            THEN Redacted
            ELSE IF obj.f[key].t = "object"
            THEN sanitizeObject(obj.f[key])
            ELSE sanitizeValue(obj.f[key])])

\* names of fields
kLogLevel == <<"l", "o", "g", "L", "e", "v", "e", "l">>
kMessage == <<"m", "e", "s", "s", "a", "g", "e">>
kTimestamp == <<"t", "i", "m", "e", "s", "t", "a", "m", "p">>
kError == <<"e", "r", "r", "o", "r">>
kName == <<"n", "a", "m", "e">>
kItems == <<"i", "t", "e", "m", "s">>
kBotToken == <<"b", "o", "t", "T", "o", "k", "e", "n">>
kPASSWORD == <<"P", "A", "S", "S", "W", "O", "R", "D">>

LongToken == [i \in 1..21 |-> IF i % 2 = 0 THEN "x" ELSE "7"]

LogLeaves == {Str(<<"a">>), Str(<<"b">>), Str(LongToken)}
LogInner == {Obj(key :> v) : key \in {kName, kBotToken}, v \in {Str(<<"a">>), Str(<<"b">>)}}
LogArrays == {Arr(<<o>>) : o \in LogInner}

\* the context or data objects handed to the logger
LogObjects ==
    {Obj(key :> v) : key \in {kItems, kPASSWORD}, v \in LogLeaves \cup LogInner \cup LogArrays}

LogMessage == Str(<<"m">>)

\* console.log(JSON.stringify({logLevel: 'INFO', message, ...sanitizedContext, timestamp}))
logAlertEvent(message, context) ==
    Obj((kTimestamp :> Str(NowIso)) @@ sanitizeObject(context).f
        @@ (kLogLevel :> Str(<<"INFO">>)) @@ (kMessage :> message))

\* error is a string; Object.assign(logData, sanitizedContext)
logAlertError(message, error, context) ==
    Obj(sanitizeObject(context).f
        @@ (kLogLevel :> Str(<<"ERROR">>)) @@ (kMessage :> message)
        @@ (kError :> error) @@ (kTimestamp :> Str(NowIso)))

\* Object.assign(logData, sanitized)
logInfo(message, data) ==
    Obj(sanitizeObject(data).f
        @@ (kLogLevel :> Str(<<"INFO">>)) @@ (kMessage :> message)
        @@ (kTimestamp :> Str(NowIso)))

\* the two lines written by the function fn for the two objects
Emitted(fn, first, second) == <<[fn |-> fn, line |-> first], [fn |-> fn, line |-> second]>>

LogIdle ==
    /\ logInput = Obj(NoFields)
    /\ logOther = Obj(NoFields)
    /\ logRecords = <<>>

LogInit ==
    /\ logInput \in LogObjects
    /\ logOther \in LogObjects
    /\ logRecords = <<>>

LogAlertEvent ==
    /\ logRecords = <<>>
    /\ logRecords' = Emitted("logAlertEvent", logAlertEvent(LogMessage, logInput),
                           logAlertEvent(LogMessage, logOther))
    /\ UNCHANGED <<logInput, logOther>>
    /\ UNCHANGED logOthers

LogAlertError ==
    /\ logRecords = <<>>
    /\ logRecords' = Emitted("logAlertError", logAlertError(LogMessage, Str(<<"e">>), logInput),
                           logAlertError(LogMessage, Str(<<"e">>), logOther))
    /\ UNCHANGED <<logInput, logOther>>
    /\ UNCHANGED logOthers

LogInfo ==
    /\ logRecords = <<>>
    /\ logRecords' = Emitted("logInfo", logInfo(LogMessage, logInput),
                           logInfo(LogMessage, logOther))
    /\ UNCHANGED <<logInput, logOther>>
    /\ UNCHANGED logOthers

(***************************************************************************)
(* Specifications                                                          *)
(***************************************************************************)
HandlerIdle ==
    /\ env = RequiredEnv
    /\ alerts = <<>>
    /\ pc = "idle"
    /\ enabledAlerts = <<>>
    /\ idx = 0
    /\ measurement = NoMeasurement
    /\ pending = NoEvent
    /\ site = "none"
    /\ events = <<>>
    /\ log = <<>>

ClientIdle == ParseIdle /\ FetchIdle /\ SendIdle /\ KeyIdle /\ LogIdle

Init == HandlerInit /\ EvalIdle /\ TokenIdle /\ ClientIdle

Next ==
    \/ Start
    \/ QueryAlerts
    \/ FetchAndEvaluate
    \/ SendNotification
    \/ WriteEventOk
    \/ WriteEventThrows

Spec == Init /\ [][Next]_vars

InitEval == HandlerIdle /\ EvalInit /\ TokenIdle /\ ClientIdle

NextEval == Evaluate

SpecEval == InitEval /\ [][NextEval]_vars

InitToken == HandlerIdle /\ EvalIdle /\ TokenInit /\ ClientIdle

NextToken ==
    \/ \E p \in Params : GetBotToken(p)
    \/ \E id \in 1..Len(requests) : SsmResponds(id)
    \/ \E id \in 1..Len(requests) : SsmFails(id)
    \/ clearTokenCache
    \/ \E p \in Params, v \in Tokens \cup {NoValue} : RotateToken(p, v)

SpecToken == InitToken /\ [][NextToken]_vars

InitParse ==
    HandlerIdle /\ EvalIdle /\ TokenIdle /\ ParseInit /\ FetchIdle /\ SendIdle /\ KeyIdle /\ LogIdle

NextParse == Parse

SpecParse == InitParse /\ [][NextParse]_vars

InitFetch ==
    HandlerIdle /\ EvalIdle /\ TokenIdle /\ ParseIdle /\ FetchInit /\ SendIdle /\ KeyIdle /\ LogIdle

NextFetch ==
    \/ FetchCall
    \/ Tick
    \/ TimerFires
    \/ FetchRejects
    \/ HeadersArrive
    \/ BodyArrives
    \/ BodyInvalid

SpecFetch == InitFetch /\ [][NextFetch]_vars

InitSend ==
    HandlerIdle /\ EvalIdle /\ ParseIdle /\ FetchIdle /\ SendInit /\ KeyIdle /\ LogIdle

NextSend ==
    \/ SendMessageStart
    \/ SendGetsToken
    \/ \E id \in 1..Len(requests) : SsmResponds(id)
    \/ \E id \in 1..Len(requests) : SsmFails(id)
    \/ SendTokenFailed
    \/ SendPosts
    \/ TelegramResponds
    \/ PostRejects

SpecSend == InitSend /\ [][NextSend]_vars

InitKeys ==
    HandlerIdle /\ EvalIdle /\ TokenIdle /\ ParseIdle /\ FetchIdle /\ SendIdle /\ KeyInit /\ LogIdle

NextKeys == WriteEvent

SpecKeys == InitKeys /\ [][NextKeys]_vars

InitLog ==
    HandlerIdle /\ EvalIdle /\ TokenIdle /\ ParseIdle /\ FetchIdle /\ SendIdle /\ KeyIdle /\ LogInit

NextLog ==
    \/ LogAlertEvent
    \/ LogAlertError
    \/ LogInfo

SpecLog == InitLog /\ [][NextLog]_vars

(***************************************************************************)
(* Vocabulary of the properties of a handler run                           *)
(***************************************************************************)
LogIdx == 1..Len(log)
EventIdx == 1..Len(events)

StoredAlerts == {alerts[k] : k \in 1..Len(alerts)}
AlertOf(sk) == CHOOSE a \in StoredAlerts : a.sk = sk

\* positions of the log where operation o was performed for the alert sk
Ops(o, sk) == {k \in LogIdx : log[k].op = o /\ log[k].sk = sk}
PerAlertOps == {k \in LogIdx : log[k].op \in {"fetch", "send", "write"}}
EventsOf(sk) == {k \in EventIdx : events[k].alertSk = sk}

QueryThrew == \E k \in LogIdx : log[k].op = "query" /\ log[k].res = "threw"
QueryOk == \E k \in LogIdx : log[k].op = "query" /\ log[k].res = "ok"
NoWriteFailed == \A k \in LogIdx : log[k].op = "write" => log[k].res = "ok"

FetchThrew(sk) == \E k \in Ops("fetch", sk) : log[k].res = "threw"
FetchNull(sk) == \E k \in Ops("fetch", sk) : log[k].res = "null"
FetchedLevel(sk, l) == \E k \in Ops("fetch", sk) : log[k].res = "ok" /\ log[k].level = l
SendThrew(sk) == \E k \in Ops("send", sk) : log[k].res = "threw"
SendOk(sk) == \E k \in Ops("send", sk) : log[k].res = "ok"

InRange(a, l) == a.minLevel <= l /\ l <= a.maxLevel

\* the loop has left the i-th enabled alert behind
Finished(i) ==
    \/ pc = "done" /\ i <= Len(enabledAlerts)
    \/ pc \in {"fetch", "send", "write"} /\ i < idx


(***************************************************************************)
(* C1. Per-alert failure isolation: while every audit write succeeds, the  *)
(* handler does not throw once the alerts are loaded; every alert the loop *)
(* has left behind was fetched once and has one recorded event, which is   *)
(* FAILED when its fetch or its dispatch threw; and the handler returns    *)
(* only after every enabled alert has been processed so.                   *)
(***************************************************************************)
C1_FailureIsolation ==
    NoWriteFailed =>
        /\ pc = "thrown" => (env # RequiredEnv \/ QueryThrew)
        /\ pc = "done" => QueryOk
        /\ \A i \in 1..Len(enabledAlerts) :
              Finished(i) =>
                 LET sk == enabledAlerts[i].sk
                 IN  /\ Cardinality(Ops("fetch", sk)) = 1
                     /\ Cardinality(EventsOf(sk)) = 1
                     /\ (FetchThrew(sk) \/ SendThrew(sk)) =>
                            \A k \in EventsOf(sk) : events[k].status = "FAILED"

\* the first of two enabled alerts threw, the second was recorded, the run returned
C1_Witness ==
    /\ pc = "done"
    /\ NoWriteFailed
    /\ Len(enabledAlerts) = 2
    /\ FetchThrew(enabledAlerts[1].sk)
    /\ EventsOf(enabledAlerts[2].sk) # {}

(***************************************************************************)
(* C2. A notification is dispatched for an alert only if the alert is      *)
(* enabled and its fetch, earlier in the run, returned a measurement with  *)
(* minLevel <= level <= maxLevel; an alert whose fetch returned null or    *)
(* threw, or whose level is out of range, is never dispatched.             *)
(***************************************************************************)
C2_DispatchOnlyWhenMatched ==
    /\ \A k \in LogIdx :
          log[k].op = "send" =>
             LET a == AlertOf(log[k].sk)
             IN  /\ a.enabled
                 /\ \E j \in 1..(k - 1) :
                       /\ log[j].op = "fetch"
                       /\ log[j].sk = a.sk
                       /\ log[j].res = "ok"
                       /\ InRange(a, log[j].level)
    /\ \A a \in StoredAlerts :
          (\/ FetchNull(a.sk)
           \/ FetchThrew(a.sk)
           \/ \E l \in Levels : FetchedLevel(a.sk, l) /\ ~InRange(a, l))
             => Ops("send", a.sk) = {}
    /\ pc = "send" =>
          /\ enabledAlerts[idx].enabled
          /\ InRange(enabledAlerts[idx], measurement.level)

\* one alert was dispatched, another had a level outside its range
C2_Witness ==
    /\ pc = "done"
    /\ \E a \in StoredAlerts : SendOk(a.sk)
    /\ \E a \in StoredAlerts : \E l \in Levels : FetchedLevel(a.sk, l) /\ ~InRange(a, l)

C5_DisabledNoEffects ==
    /\ \A k \in PerAlertOps : AlertOf(log[k].sk).enabled
    /\ \A k \in EventIdx : AlertOf(events[k].alertSk).enabled
    /\ (QueryOk /\ \A a \in StoredAlerts : ~a.enabled) =>
          /\ pc = "done"
          /\ PerAlertOps = {}
          /\ events = <<>>

\* a disabled alert ahead of an enabled one: only the enabled one is recorded
C5_Witness ==
    /\ pc = "done"
    /\ Len(alerts) = 2
    /\ ~alerts[1].enabled
    /\ alerts[2].enabled
    /\ Len(events) = 1

(***************************************************************************)
(* C6. Status invariant of every event built by the three builders and of  *)
(* every item the run writes: SENT has sentAt and no error, FAILED has an  *)
(* error and no sentAt, SKIPPED has neither.                               *)
(***************************************************************************)
StatusInvariant(e) ==
    /\ e.status \in {"SENT", "FAILED", "SKIPPED"}
    /\ e.status = "SENT" => (Present(e, "sentAt") /\ ~Present(e, "error"))
    /\ e.status = "FAILED" => (Present(e, "error") /\ ~Present(e, "sentAt"))
    /\ e.status = "SKIPPED" => (~Present(e, "sentAt") /\ ~Present(e, "error"))

C6_StatusInvariant ==
    /\ pending # NoEvent => StatusInvariant(pending)
    /\ \A k \in EventIdx : StatusInvariant(events[k])
    /\ \A k \in LogIdx : log[k].op = "write" => StatusInvariant(log[k].event)

\* a SENT and a FAILED event are in the table
C6_Witness ==
    /\ \E k \in EventIdx : events[k].status = "SENT"
    /\ \E k \in EventIdx : events[k].status = "FAILED"

(***************************************************************************)
(* C7. For an enabled alert whose measurement lies outside its range the   *)
(* run records exactly one event, with status SKIPPED and matched = false  *)
(* (audit writes succeeding).                                              *)
(***************************************************************************)
C7_OutOfRangeSkippedUnmatched ==
    NoWriteFailed =>
       \A i \in 1..Len(enabledAlerts) :
          Finished(i) =>
             LET a == enabledAlerts[i]
             IN  (\E l \in Levels : FetchedLevel(a.sk, l) /\ ~InRange(a, l)) =>
                    /\ Cardinality(EventsOf(a.sk)) = 1
                    /\ \A k \in EventsOf(a.sk) :
                          /\ events[k].status = "SKIPPED"
                          /\ events[k].matched = FALSE

(***************************************************************************)
(* C8. evaluateAlert and isLevelInRange return true exactly when the alert *)
(* is enabled and minLevel <= L <= maxLevel, both bounds inclusive: false  *)
(* for a disabled alert, true for the single level of a one-point range,   *)
(* false for every level of an inverted range.                             *)
(***************************************************************************)
C8_EvaluateIffEnabledInRange ==
    evalResult # NoResult =>
       LET expected == /\ evalAlert.enabled
                       /\ evalAlert.minLevel <= evalLevel
                       /\ evalLevel <= evalAlert.maxLevel
       IN  /\ evalResult.evaluateAlert = expected
           /\ evalResult.isLevelInRange = expected
           /\ ~evalAlert.enabled => ~evalResult.evaluateAlert
           /\ evalAlert.minLevel > evalAlert.maxLevel => ~evalResult.evaluateAlert
           /\ (evalAlert.enabled /\ evalAlert.minLevel = evalAlert.maxLevel) =>
                 (evalResult.evaluateAlert <=> evalLevel = evalAlert.minLevel)

\* a level on the upper bound of a proper range matches
C8_Witness ==
    /\ evalResult # NoResult
    /\ evalAlert.enabled
    /\ evalAlert.minLevel < evalAlert.maxLevel
    /\ evalLevel = evalAlert.maxLevel
    /\ evalResult.evaluateAlert
    /\ evalResult.isLevelInRange

(***************************************************************************)
(* C9. Credential caching: a getBotToken call made after some call has     *)
(* succeeded, with no clearTokenCache since that success, issues no        *)
(* request to the secret provider and returns the token of that success.   *)
(***************************************************************************)
C9_CachedTokenReturned ==
    \A k \in 1..Len(calls) :
       calls[k].afterOk # Null =>
          /\ ~calls[k].issued
          /\ calls[k].result = calls[k].afterOk

(***************************************************************************)
(* C10. At most one credential request to the secret provider is in        *)
(* flight at any moment, whatever the interleaving of getBotToken calls,   *)
(* request completions and clearTokenCache calls.                          *)
(***************************************************************************)
C10_AtMostOneRequestInFlight == Cardinality(InFlight) <= 1

(***************************************************************************)
(* C11. Invalidation: the first getBotToken call after a clearTokenCache   *)
(* (made at any point, also while a request is in flight) sends a new      *)
(* request to the secret provider, and what it returns does not come from  *)
(* a request that was sent before the clear.                               *)
(***************************************************************************)
C11_ClearInvalidates ==
    \A k \in 1..Len(calls) :
       calls[k].afterClear =>
          /\ calls[k].issued
          /\ ~calls[k].srcBeforeClear

(***************************************************************************)
(* C14. sendTelegramMessage returns the message_id of the response if and  *)
(* only if the HTTP status is a success, the ok flag of the body is true   *)
(* and result.message_id is a number; on a non-success status it throws    *)
(* an error holding the status code and the body, it throws when ok is     *)
(* false and when message_id is missing; a call issues exactly one POST.   *)
(***************************************************************************)
C14_SendTelegramOutcome ==
    /\ Len(smPosts) <= 1
    /\ (smPc \in {"returned", "threw"} /\ smPosts # <<>>) =>
          LET r == smResponse
              httpOk == Present(r, "status") /\ responseOk(r.status)
              data == IF Present(r, "data") THEN r.data ELSE Undefined
              messageId == Get(Get(data, "result"), "message_id")
          IN  /\ smResult.kind = "returned" <=>
                    (httpOk /\ Get(data, "ok") = Bool(TRUE) /\ messageId.t = "number")
              /\ smResult.kind = "returned" => smResult.value = messageId
              /\ (Present(r, "status") /\ ~responseOk(r.status)) =>
                    /\ smResult.kind = "threw"
                    /\ smResult.error.message =
                          "Telegram API returned status " \o ToString(r.status) \o ": " \o r.text
              /\ Len(smPosts) = 1

\* the message_id 0 of a successful response is returned
C14_Witness ==
    /\ smPc = "returned"
    /\ Len(smPosts) = 1
    /\ smResponse.status = 200
    /\ smResult = Returned(Num(0))

(***************************************************************************)
(* C15. sendMessage obtains the credential before it posts: with no        *)
(* parameter name in the option and none in the environment it throws and  *)
(* neither the secret provider nor the channel is contacted; when the      *)
(* credential fetch fails it throws and no POST is issued; a POST carries  *)
(* the token getBotToken returned.                                         *)
(***************************************************************************)
C15_CredentialBeforePost ==
    /\ (smOption = NoName /\ smEnv = NoName) =>
          /\ smPc \in {"start", "threw"}
          /\ requests = <<>>
          /\ calls = <<>>
          /\ smPosts = <<>>
    /\ (calls # <<>> /\ calls[1].result = "rejected") =>
          /\ smPc \in {"token", "threw"}
          /\ smPosts = <<>>
    /\ smPosts # <<>> =>
          /\ calls # <<>>
          /\ calls[1].result \in Tokens
          /\ smPosts[1].token = calls[1].result

\* the credential request failed and sendMessage threw without a POST
C15_Witness ==
    /\ smPc = "threw"
    /\ requests # <<>>
    /\ calls[1].result = "rejected"
    /\ smPosts = <<>>

(***************************************************************************)
(* C16. Run-level failures are fatal: when a required environment variable *)
(* is missing, or the query of the alert store throws, the handler throws  *)
(* and the run performs no fetch, no dispatch and no audit write.          *)
(***************************************************************************)
C16_RunLevelFatal ==
    /\ env # RequiredEnv =>
          /\ pc \in {"start", "thrown"}
          /\ log = <<>>
          /\ events = <<>>
    /\ QueryThrew =>
          /\ pc = "thrown"
          /\ PerAlertOps = {}
          /\ events = <<>>

\* the query threw although the store holds an enabled alert
C16_Witness ==
    /\ pc = "thrown"
    /\ QueryThrew
    /\ \E a \in StoredAlerts : a.enabled

(***************************************************************************)
(* C12. Outcome classes of a completed fetchStationData call: an abort by  *)
(* the timer throws 'Request timeout after <ms>ms', and nothing else       *)
(* throws that error; a response with a non-2xx status throws an error     *)
(* whose message carries the status code; a 2xx response whose body is not *)
(* an array throws; an empty array yields null; any other array yields     *)
(* parseMeasurement of its first element, whatever the later elements are. *)
(***************************************************************************)
TimeoutError(timeout) == JsError("Request timeout after " \o ToString(timeout) \o "ms")

C12_FetchOutcomeClasses ==
    FetchDone =>
       LET timeout == timeoutOf(fetchOption)
           src == fetchSource
       IN  /\ src.kind = "aborted" <=> fetchResult = Threw(TimeoutError(timeout))
           /\ (src.kind = "response" /\ ~responseOk(src.status)) =>
                 /\ fetchResult.kind = "threw"
                 /\ fetchResult.error.message =
                       "IMGW API returned status " \o ToString(src.status) \o ": " \o src.statusText
           /\ (src.kind = "response" /\ Present(src, "body")) =>
                 /\ responseOk(src.status)
                 /\ IF src.body.t # "array"
                    THEN fetchResult.kind = "threw"
                    ELSE IF Len(src.body.a) = 0
                    THEN fetchResult = Returned(JsNull)
                    ELSE fetchResult = Returned(parseMeasurement(src.body.a[1], NowIso))

\* a two-element array whose elements parse differently: the first decides
C12_Witness ==
    /\ FetchDone
    /\ fetchSource.kind = "response"
    /\ Present(fetchSource, "body")
    /\ fetchSource.body.t = "array"
    /\ Len(fetchSource.body.a) = 2
    /\ parseMeasurement(fetchSource.body.a[1], NowIso) # JsNull
    /\ parseMeasurement(fetchSource.body.a[2], NowIso) = JsNull
    /\ fetchResult = Returned(parseMeasurement(fetchSource.body.a[1], NowIso))

(***************************************************************************)
(* C13. Bounded fetch: once more than the configured timeout has elapsed   *)
(* since the call, the call has completed (returned a measurement,         *)
(* returned null, or thrown), whatever the source does, also when it never *)
(* answers or sends the status line and never the body.                    *)
(***************************************************************************)
C13_CompletesAfterTimeout == clock > timeoutOf(fetchOption) => FetchDone

(***************************************************************************)
(* C17. Log redaction: in every record emitted by logAlertEvent,           *)
(* logAlertError or logInfo, every field at any nesting depth whose name   *)
(* contains a sensitive keyword, case-insensitively, has the value         *)
(* '[REDACTED]'; so two context objects that differ only in the values of  *)
(* such fields give the same record.                                       *)
(***************************************************************************)
RECURSIVE Leaks(_)
\* some field with a sensitive name, at some depth of v, is not redacted
Leaks(v) ==
    CASE v.t = "object" ->
            \E key \in DOMAIN v.f :
               \/ isSensitiveKey(key) /\ v.f[key] # Redacted
               \/ Leaks(v.f[key])
      [] v.t = "array" -> \E i \in 1..Len(v.a) : Leaks(v.a[i])
      [] OTHER -> FALSE

RECURSIVE Masked(_)
\* v with the value of every field with a sensitive name blanked
Masked(v) ==
    CASE v.t = "object" ->
            Obj([key \in DOMAIN v.f |->
                    IF isSensitiveKey(key) THEN Redacted ELSE Masked(v.f[key])])
      [] v.t = "array" -> Arr([i \in 1..Len(v.a) |-> Masked(v.a[i])])
      [] OTHER -> v

C17_LogRedaction ==
    logRecords # <<>> =>
       /\ ~Leaks(logRecords[1].line)
       /\ ~Leaks(logRecords[2].line)
       /\ Masked(logInput) = Masked(logOther) => logRecords[1].line = logRecords[2].line

(***************************************************************************)
(* C18. The item written by writeEvent has the partition key               *)
(* 'ALERT#' + stationId + '#' + alertId, where alertId is what follows the *)
(* station id in the alert's composite key and 'default' when the key is   *)
(* absent or holds no alert id; its sort key is 'MEASUREMENT#' + the       *)
(* measurement timestamp with ':' and '.' replaced by '-' + '#' + the      *)
(* random suffix; every field of the event is in the item unchanged.       *)
(***************************************************************************)
\* the '#'-separated parts of the alert id of an event
ExpectedAlertId(event) ==
    IF ~Present(event, "alertSk")
    THEN <<"default">>
    ELSE IF Len(event.alertSk) < 2 \/ Tail(event.alertSk) = <<"">>
    THEN <<"default">>
    ELSE Tail(event.alertSk)

C18_WriteEventKeys ==
    \A k \in 1..Len(written) :
       LET event == written[k].event
           item == written[k].item
           ts == event.measurementTimeIso
       IN  /\ item.pk = <<"ALERT", event.stationId>> \o ExpectedAlertId(event)
           /\ Len(item.sk) = 3
           /\ item.sk[1] = "MEASUREMENT"
           /\ Len(item.sk[2]) = Len(ts)
           /\ \A i \in 1..Len(ts) :
                 item.sk[2][i] = IF ts[i] = ":" \/ ts[i] = "." THEN "-" ELSE ts[i]
           /\ item.sk[3] \in Randoms
           /\ DOMAIN item = DOMAIN event \cup {"pk", "sk"}
           /\ \A f \in DOMAIN event : item[f] = event[f]

(***************************************************************************)
(* C19. Audit keys never collide: two writeEvent calls for the same alert  *)
(* and the same measurement timestamp produce different sort keys, so the  *)
(* later write does not replace the item of the earlier one.               *)
(***************************************************************************)
SameAlert(e1, e2) ==
    /\ e1.stationId = e2.stationId
    /\ Present(e1, "alertSk") = Present(e2, "alertSk")
    /\ Present(e1, "alertSk") => e1.alertSk = e2.alertSk

C19_SortKeysDiffer ==
    \A i, j \in 1..Len(written) :
       (/\ i < j
        /\ SameAlert(written[i].event, written[j].event)
        /\ written[i].event.measurementTimeIso = written[j].event.measurementTimeIso)
          => written[i].item.sk # written[j].item.sk

(***************************************************************************)
(* C20. parseMeasurement returns null or a measurement whose level is a    *)
(* finite number. It returns null when the input is not an object, and     *)
(* when stan_wody is missing, null, NaN, infinite, or a string that is     *)
(* empty after trimming or not numeric; for a finite number the level is   *)
(* that number, for a numeric string the value of the trimmed string.      *)
(***************************************************************************)
NumericString(s) ==
    LET digits == IF s # <<>> /\ Head(s) \in {"-", "+"} THEN Tail(s) ELSE s
    IN  digits # <<>> /\ \A i \in 1..Len(digits) : IsDigit(digits[i])

NumericValue(s) ==
    IF Head(s) = "-" THEN 0 - DecimalValue(Tail(s))
    ELSE IF Head(s) = "+" THEN DecimalValue(Tail(s))
    ELSE DecimalValue(s)

C20_ParseLevelFinite ==
    parsed # NotParsed =>
       LET stanWody == Get(raw, "stan_wody")
       IN  /\ parsed = JsNull \/ parsed.level \in Int
           /\ raw.t # "object" => parsed = JsNull
           /\ stanWody.t \in {"undefined", "null", "NaN", "Infinity"} => parsed = JsNull
           /\ (stanWody.t = "string" /\ ~NumericString(trim(stanWody.s))) => parsed = JsNull
           /\ stanWody.t = "number" => (parsed # JsNull /\ parsed.level = stanWody.n)
           /\ (stanWody.t = "string" /\ NumericString(trim(stanWody.s))) =>
                 (parsed # JsNull /\ parsed.level = NumericValue(trim(stanWody.s)))

\* a negative numeric string with leading whitespace
C20_Witness ==
    /\ parsed # NotParsed
    /\ Get(raw, "stan_wody") = Str(<<" ", "-", "1">>)
    /\ parsed # JsNull
    /\ parsed.level = -1

(***************************************************************************)
(* C21. Every measurement parseMeasurement returns carries a non-empty     *)
(* measurementTime: the text of the first of data_pomiaru, timestamp, date *)
(* that is present, and the current instant when none of them is. A field  *)
(* counts as present when it holds a value the source tests as true.       *)
(***************************************************************************)
TimestampPriority == <<"data_pomiaru", "timestamp", "date">>

FirstPresent(obj) ==
    {k \in 1..Len(TimestampPriority) :
        /\ Truthy(Get(obj, TimestampPriority[k]))
        /\ \A j \in 1..(k - 1) : ~Truthy(Get(obj, TimestampPriority[j]))}

C21_MeasurementTime ==
    (parsed # NotParsed /\ parsed # JsNull) =>
        /\ parsed.measurementTime # <<>>
        /\ \A k \in FirstPresent(raw) :
              parsed.measurementTime = String(Get(raw, TimestampPriority[k]))
        /\ FirstPresent(raw) = {} => parsed.measurementTime = NowIso

(***************************************************************************)
(* C22. Sequential, ordered processing. The enabled alerts are processed   *)
(* one at a time in the order of the store; the operations of one alert    *)
(* come in the order fetch (with the evaluation), dispatch, audit write; a *)
(* SENT event is written only after the dispatch returned its message id;  *)
(* and no operation of a later alert happens before the last audit write   *)
(* of the alert before it has finished.                                    *)
(***************************************************************************)
StorePos(sk) == CHOOSE k \in 1..Len(alerts) : alerts[k].sk = sk

OpsOf(sk) == {k \in PerAlertOps : log[k].sk = sk}
LastOp(sk) == CHOOSE k \in OpsOf(sk) : \A j \in OpsOf(sk) : j <= k

C22_SequentialOrdered ==
    /\ \A i, j \in 1..Len(enabledAlerts) :
          i < j => StorePos(enabledAlerts[i].sk) < StorePos(enabledAlerts[j].sk)
    /\ \A j, k \in PerAlertOps :
          j < k => StorePos(log[j].sk) <= StorePos(log[k].sk)
    /\ \A j, k \in PerAlertOps :
          (j < k /\ log[j].sk # log[k].sk) =>
             /\ log[LastOp(log[j].sk)].op = "write"
             /\ LastOp(log[j].sk) < k
    /\ \A a \in StoredAlerts :
          /\ Cardinality(Ops("fetch", a.sk)) <= 1
          /\ \A f \in Ops("fetch", a.sk) : \A k \in OpsOf(a.sk) : f <= k
          /\ \A d \in Ops("send", a.sk) :
                /\ \E f \in Ops("fetch", a.sk) : f < d /\ log[f].res = "ok"
                /\ \A w \in Ops("write", a.sk) : d < w
          /\ \A w \in Ops("write", a.sk) :
                /\ Ops("fetch", a.sk) # {}
                /\ log[w].event.status = "SENT" =>
                      \E d \in Ops("send", a.sk) :
                         /\ d < w
                         /\ log[d].res = "ok"
                         /\ log[d].id = log[w].event.telegramMessageId
    /\ pc \in {"send", "write"} =>
          /\ Ops("fetch", enabledAlerts[idx].sk) # {}
          /\ \A i \in 1..(idx - 1) :
                /\ OpsOf(enabledAlerts[i].sk) # {}
                /\ log[LastOp(enabledAlerts[i].sk)].op = "write"
    /\ (pc = "write" /\ pending.status = "SENT") => SendOk(enabledAlerts[idx].sk)

\* two enabled alerts: the first was sent and recorded before the second was fetched
C22_Witness ==
    /\ pc = "done"
    /\ Len(enabledAlerts) = 2
    /\ SendOk(enabledAlerts[1].sk)
    /\ \E w \in Ops("write", enabledAlerts[1].sk) :
          /\ log[w].event.status = "SENT"
          /\ log[w].res = "ok"
          /\ \E f \in Ops("fetch", enabledAlerts[2].sk) : w < f
    /\ Ops("write", enabledAlerts[2].sk) # {}

(***************************************************************************)
(* C23. Failure isolation under audit-write failures: once the alerts are  *)
(* loaded the run does not throw, also when a writeEvent call throws, and  *)
(* when the run has ended every enabled alert after one whose audit write  *)
(* threw has still been fetched and handed to the audit writer.            *)
(***************************************************************************)
WriteThrew(sk) == \E k \in Ops("write", sk) : log[k].res = "threw"

C23_AuditWriteFailureIsolated ==
    /\ pc = "thrown" => (env # RequiredEnv \/ QueryThrew)
    /\ pc \in {"done", "thrown"} =>
          \A i, j \in 1..Len(enabledAlerts) :
             (i < j /\ WriteThrew(enabledAlerts[i].sk)) =>
                /\ Ops("fetch", enabledAlerts[j].sk) # {}
                /\ Ops("write", enabledAlerts[j].sk) # {}

(***************************************************************************)
(* C24. An audit event is created once per alert per run. Whatever fails   *)
(* (fetch, dispatch, audit writes, a failed write storing nothing), the    *)
(* table holds at most one event of the run for each enabled alert; every  *)
(* event a write stored is still in the table as it was written (none was  *)
(* deleted, and no later put of the run had the same key and replaced it). *)
(***************************************************************************)
OkWrites == {k \in LogIdx : log[k].op = "write" /\ log[k].res = "ok"}

\* the number of writes that succeeded up to position k of the log
OkWritesUpTo(k) == Cardinality({j \in OkWrites : j <= k})

RejectedRequests == {id \in 1..Len(requests) : requests[id].state = "rejected"}
Resolved(id) == id \in 1..Len(requests) /\ requests[id].state = "resolved"

C26_MatchedAlwaysTrue ==
    /\ pending # NoEvent => pending.matched = TRUE
    /\ \A k \in {j \in LogIdx : log[j].op = "write"} :
          log[k].event.matched = TRUE
    /\ \A k \in EventIdx : events[k].matched = TRUE

\* a SKIPPED event for a level outside the range beside a SENT event
C26_Witness ==
    /\ Len(events) = 2
    /\ \E k \in EventIdx :
          /\ events[k].status = "SKIPPED"
          /\ ~InRange(AlertOf(events[k].alertSk), events[k].level)
          /\ events[k].matched = TRUE
    /\ \E k \in EventIdx : events[k].status = "SENT" /\ events[k].matched = TRUE

(***************************************************************************)
(* C27. At most one dispatch attempt per enabled alert per run: whatever   *)
(* fails afterwards (the dispatch itself, the audit write of the SENT or   *)
(* of the FAILED event), the dispatcher is not called a second time for    *)
(* the same alert.                                                         *)
(***************************************************************************)
C27_AtMostOneDispatch ==
    /\ \A a \in StoredAlerts : Cardinality(Ops("send", a.sk)) <= 1
    /\ pc = "send" => Ops("send", enabledAlerts[idx].sk) = {}

\* the dispatch succeeded, the SENT write and the FAILED write after it
\* threw, and the run ended with one dispatch for the alert
C27_Witness ==
    /\ pc \in {"done", "thrown"}
    /\ \E a \in StoredAlerts :
          /\ SendOk(a.sk)
          /\ Cardinality({k \in Ops("write", a.sk) : log[k].res = "threw"}) >= 2
          /\ Cardinality(Ops("send", a.sk)) = 1

(***************************************************************************)
(* C28. A FAILED event is recorded for an alert only if no notification    *)
(* was delivered for it in the run: when the dispatcher returned a message *)
(* id for the alert, no event with status FAILED is stored for it, also    *)
(* when the audit write of the SENT event failed.                          *)
(***************************************************************************)
C28_FailedOnlyIfNotDelivered ==
    \A a \in StoredAlerts :
       SendOk(a.sk) => \A k \in EventsOf(a.sk) : events[k].status # "FAILED"

(***************************************************************************)
(* C29. The token getBotToken(parameterName) returns is the value of the   *)
(* parameter named in the call: with no clearTokenCache between the        *)
(* request that fetched a token and the call that returns it, the request  *)
(* was made for the parameter name of the call.                            *)
(***************************************************************************)
C29_TokenOfNamedParameter ==
    \A k \in 1..Len(calls) :
       (calls[k].result \in Tokens /\ ~calls[k].srcBeforeClear) =>
          /\ calls[k].src \in 1..Len(requests)
          /\ requests[calls[k].src].param = calls[k].param

(***************************************************************************)
(* C30. The audit partition key matches the alert identity. For an alert   *)
(* whose key is '{stationId}#{alertId}' the alert id of the partition key  *)
(* is the alert id of that key (everything after the first '#'), and two   *)
(* alerts with different keys are never written under the same partition   *)
(* key.                                                                    *)
(***************************************************************************)
\* the event carries an alert key with a station part and an alert id
HasCompositeKey(event) == Present(event, "alertSk") /\ Len(event.alertSk) >= 2

C30_PartitionKeyMatchesAlert ==
    /\ \A k \in 1..Len(written) :
          HasCompositeKey(written[k].event) =>
             written[k].item.pk =
                <<"ALERT", written[k].event.stationId>> \o Tail(written[k].event.alertSk)
    /\ \A i, j \in 1..Len(written) :
          (/\ HasCompositeKey(written[i].event)
           /\ HasCompositeKey(written[j].event)
           /\ written[i].event.alertSk # written[j].event.alertSk)
             => written[i].item.pk # written[j].item.pk

====
